---- MODULE Spec2Model ----
(***************************************************************************)
(* Context gathering of the OpenAugi plugin: link-based discovery (BFS     *)
(* with a character budget), recency-based discovery, folder filtering    *)
(* and reference resolution.                                              *)
(*                                                                         *)
(* The vault does not change during a run.  A note's content is entered   *)
(* in `store` the first time a run reads it, and a file's attributes in   *)
(* `files` when the recency scan reaches it.  Linked notes are numbered   *)
(* in the order in which a reference to them is first read (a renaming of *)
(* the vault's notes), the root being note 0.  Sizes are in units of one  *)
(* reference token, so a note is never shorter than its references.       *)
(* Times are absolute ticks, TicksPerDay to the day.                      *)
(***************************************************************************)
EXTENDS Integers, Sequences, FiniteSets, TLC

\* ---- bounds ----------------------------------------------------------
MaxRefs == 5      \* references in the part of the vault the runs read
MaxExtra == 1     \* characters of a note besides its references
MaxBudget == 4    \* config.maxCharacters
NumFiles == 2     \* files listed by vault.getMarkdownFiles()
MaxDaysBack == 2  \* timeWindow.daysBack
MaxTokens == 2    \* reference tokens of the note given to getLinkedNotes
TicksPerDay == 2  \* clock ticks to the day (the code's clock has 86400000)
MaxLines == 4     \* lines of the text given to extractContentByDateRange
MaxChars == 6     \* characters of the text given to processBacklinks
MaxNotes == 2     \* notes of the batch given to writeDistilledFiles

NoteIds == 0 .. MaxRefs
Budgets == (MaxBudget - 1) .. MaxBudget
Depths == {1, 2, 3}
RunIds == {1, 2}

VARIABLES
    store,       \* note id -> content read so far (NoContent: not read yet)
    known,       \* number of linked notes met so far (ids 0 .. known-1)
    files,       \* the files of getMarkdownFiles() the scan has reached
    run,         \* run id -> the locals of one gatherContext invocation
    note,        \* the note handed to getLinkedNotes on its own
    linked,      \* what getLinkedNotes returned for `note`
    call,        \* the arguments of a function called on its own
    result       \* what that function returned

vars == <<store, known, files, run, note, linked, call, result>>

\* ---- TFile ------------------------------------------------------------
TitleCount == 4
\* file.basename, as its rank in localeCompare order; titles may collide
Basename(n) == (3 * n) % TitleCount

\* the folders of the vault; a path is a folder chain and a file name
Dirs == << <<"Archive">>, <<>>, <<"Projects", "Archive">>, <<"Archived">> >>
\* the folder of linked note n (the root, note 0, lies in Archive)
NoteDir(n) == Dirs[(n % Len(Dirs)) + 1]

DirSet == { Dirs[i] : i \in 1 .. Len(Dirs) }

\* config.excludeFolders, each folder a chain of segments
ExcludeLists == { <<>>, << <<"Archive">> >> }

\* path.startsWith(folder + '/')
StartsWithFolder(dir, folder) ==
    /\ Len(folder) <= Len(dir)
    /\ SubSeq(dir, 1, Len(folder)) = folder

\* path.includes('/' + folder + '/')
IncludesFolder(dir, folder) ==
    \E i \in 2 .. Len(dir) :
        /\ i + Len(folder) - 1 <= Len(dir)
        /\ SubSeq(dir, i, i + Len(folder) - 1) = folder

\* faulty variant: the prefix test alone
IsExcludedByPrefix(dir, excludeFolders) ==
    \E k \in 1 .. Len(excludeFolders) : StartsWithFolder(dir, excludeFolders[k])

\* excludeFolders.some(folder => startsWith || includes)
IsExcluded(dir, excludeFolders) ==
    \E k \in 1 .. Len(excludeFolders) :
        \/ StartsWithFolder(dir, excludeFolders[k])
        \/ IncludesFolder(dir, excludeFolders[k])

\* discoveredVia: "root" | "linked from [[<basename>]]" | "recent activity"
Root == [kind |-> "root", title |-> -1]
LinkedFrom(via) == [kind |-> "linked from", title |-> via]
RecentActivity == [kind |-> "recent activity", title |-> -1]

DiscoveredNote(file, depth, discoveredVia, estimatedChars, included) ==
    [file |-> file, depth |-> depth, discoveredVia |-> discoveredVia,
     estimatedChars |-> estimatedChars, included |-> included]

\* ---- Map<string, DiscoveredNote>, in insertion order -------------------
\* faulty variant: has() never finds the key
MapHasNot(m, k) == FALSE

MapHas(m, k) == \E i \in 1 .. Len(m) : m[i].file = k

MapSet(m, v) ==
    IF MapHas(m, v.file)
    THEN [i \in 1 .. Len(m) |-> IF m[i].file = v.file THEN v ELSE m[i]]
    ELSE Append(m, v)

\* ---- note text ----------------------------------------------------------
\* A text is the sequence of its reference tokens:
\*   kind "link"   [[t]]          kind "embed"  ![[t]]
\*   kind "box"    - [m] [[t]]    (m the character between the brackets)
\*   kind "query"  a dataview block whose result resolves to file t
\* target: the note getFirstLinkpathDest resolves the link to, -1 if none
Token(kind, marker, target) == [kind |-> kind, marker |-> marker, target |-> target]

NoContent == [chars |-> -1, text |-> <<>>]

RECURSIVE SeqMax(_)
SeqMax(s) == IF s = <<>> THEN -1
             ELSE LET m == SeqMax(Tail(s)) IN IF Head(s) > m THEN Head(s) ELSE m

\* notes met once the references `refs` have been read too
Met(k, refs) == LET m == SeqMax(refs) IN IF m + 1 > k THEN m + 1 ELSE k

RECURSIVE SumRefs(_, _)
SumRefs(st, n) == IF n < 0 THEN 0 ELSE Len(st[n].text) + SumRefs(st, n - 1)

\* references still to be read within the bound
RefsLeft == MaxRefs - SumRefs(store, MaxRefs)

\* the reference lists of length n a note can hold when `k` notes have been
\* met: no identity twice, a note not met before gets the next number
RECURSIVE RefListsN(_, _)
RefListsN(k, n) ==
    IF n = 0 THEN {<<>>}
    ELSE UNION { { Append(s, x) :
                     x \in { y \in 0 .. Met(k, s) :
                               y <= MaxRefs /\ \A i \in 1 .. Len(s) : s[i] # y } }
                 : s \in RefListsN(k, n - 1) }

RefLists(k) == UNION { RefListsN(k, n) : n \in 0 .. RefsLeft }

PlainText(refs) == [i \in 1 .. Len(refs) |-> Token("link", "", refs[i])]

\* what vault.read(n) can return: the content already read, or a new one
Contents(n) ==
    IF store[n] # NoContent THEN {store[n]}
    ELSE { [chars |-> Len(refs) + extra, text |-> PlainText(refs)] :
             refs \in RefLists(known), extra \in 0 .. MaxExtra }

RECURSIVE Targets(_)
Targets(text) ==
    IF text = <<>> THEN <<>> ELSE <<Head(text).target>> \o Targets(Tail(text))

\* ---- getLinkedNotes -----------------------------------------------------
\* /- \[[ x]\] \[\[.*?\]\]/.test(fileContent)
HasCheckboxLinks(text) ==
    \E i \in 1 .. Len(text) :
        text[i].kind = "box" /\ text[i].marker \in {" ", "x"}

\* /- \[x\] \[\[(.*?)\]\]/gi
IsCheckedBox(tok) == tok.kind = "box" /\ tok.marker \in {"x", "X"}

\* faulty variant: unshift in place of push
PushFileFirst(fs, target) ==
    IF target = -1 \/ (\E i \in 1 .. Len(fs) : fs[i] = target) THEN fs
    ELSE <<target>> \o fs

\* push unless the path is already in the array; unresolved links are dropped
PushFile(fs, target) ==
    IF target = -1 \/ (\E i \in 1 .. Len(fs) : fs[i] = target) THEN fs
    ELSE Append(fs, target)

RECURSIVE Collect(_, _, _)
Collect(fs, text, kinds) ==
    IF text = <<>> THEN fs
    ELSE Collect(IF Head(text).kind \in kinds
                 THEN PushFile(fs, Head(text).target) ELSE fs,
                 Tail(text), kinds)

RECURSIVE CollectChecked(_, _)
CollectChecked(fs, text) ==
    IF text = <<>> THEN fs
    ELSE CollectChecked(IF IsCheckedBox(Head(text))
                        THEN PushFile(fs, Head(text).target) ELSE fs,
                        Tail(text))

\* the final deduplication pass over linkedFiles
RECURSIVE UniqueFiles(_, _)
UniqueFiles(out, fs) ==
    IF fs = <<>> THEN out
    ELSE UniqueFiles(IF \E i \in 1 .. Len(out) : out[i] = Head(fs)
                     THEN out ELSE Append(out, Head(fs)),
                     Tail(fs))

\* metadataCache.links holds every [[..]] of the text, those of list items too
GetLinkedNotes(text, useDataview) ==
    IF HasCheckboxLinks(text) THEN CollectChecked(<<>>, text)
    ELSE LET q == IF useDataview THEN Collect(<<>>, text, {"query"}) ELSE <<>>
             l == Collect(q, text, {"link", "box"})
         IN UniqueFiles(<<>>, Collect(l, text, {"embed"}))

\* settings.useDataviewIfAvailable (DEFAULT_SETTINGS)
UseDataviewDefault == TRUE

\* no function is called on its own
NoCall == [op |-> "none"]
NoResult == [done |-> FALSE]

\* getLinkedNotes has not returned
NotResolved == [done |-> FALSE, files |-> <<>>]

\* getLinkedNotes(file) during a run
getLinkedNotes(n) == GetLinkedNotes(store[n].text, UseDataviewDefault)

\* ---- dates and times --------------------------------------------------------
\* A date string is [month, day] of one (non-leap) year; an instant is a number
\* of ticks since the year began in UTC; tz is local clock minus UTC, in ticks.
MonthDays == <<31, 28, 31, 30, 31, 30, 31, 31, 30, 31, 30, 31>>
NoDate == [month |-> 0, day |-> 0]
Null == -1

RECURSIVE DaysBefore(_)
DaysBefore(month) ==
    IF month <= 1 THEN 0 ELSE MonthDays[month - 1] + DaysBefore(month - 1)

\* the day number that the Date constructor gives month and day, rolling a day
\* past the month's end over into the next month
DayOfYear(month, day) == DaysBefore(month) + day - 1

\* new Date(year, month - 1, day).getTime(): local midnight of that day
LocalDate(month, day, tz) == DayOfYear(month, day) * TicksPerDay - tz

\* new Date("YYYY-MM-DD").getTime(): midnight of that day in UTC
ParseDate(date) == DayOfYear(date.month, date.day) * TicksPerDay

\* date.setHours(...): the same local day, at tick `tick` of the local clock
SetHours(t, tz, tick) == ((t + tz) \div TicksPerDay) * TicksPerDay - tz + tick

\* extractDateFromFilename(file.basename)
extractDateFromFilename(name, tz) ==
    IF name = NoDate THEN Null
    ELSE IF name.month >= 1 /\ name.month <= 12 /\ name.day >= 1 /\ name.day <= 31
         THEN LocalDate(name.month, name.day, tz)
         ELSE Null

\* what the model draws from
Zones == {-1, 0}
Nows == { DayOfYear(3, 2) * TicksPerDay + k : k \in {0, 1} }
Mtimes == { DayOfYear(2, 28) * TicksPerDay + 1, DayOfYear(3, 2) * TicksPerDay }
Names == { NoDate, [month |-> 2, day |-> 30], [month |-> 3, day |-> 1],
           [month |-> 13, day |-> 1] }
DateInputs == { NoDate, [month |-> 3, day |-> 1] }
DaysBackInputs == 0 .. MaxDaysBack

\* ---- journal sections -------------------------------------------------------
\* A text is the sequence of its lines (the text split at "\n"; the empty text
\* is one blank line).  A line is blank, ordinary, or one that the regex of
\* the configured header format matches, with the digits it shows for month
\* and day.
Blank == [kind |-> "blank", date |-> NoDate]
Ordinary == [kind |-> "text", date |-> NoDate]
Header(month, day) == [kind |-> "header", date |-> [month |-> month, day |-> day]]
EmptyText == <<Blank>>

\* settings.recentActivityDefaults.dateHeaderFormat: '### YYYY-MM-DD' or ''
Formats == {"### YYYY-MM-DD", ""}

\* dateFormatToRegex(format).test(line)
MatchesFormat(line) == line.kind = "header"

\* new Date(`${year}-${month}-${day}T00:00:00`): local midnight of a day of the
\* calendar, Invalid Date for a month above 12 or a day above 31
extractDateFromHeader(line, tz) ==
    IF ~MatchesFormat(line) THEN Null
    ELSE IF /\ line.date.month \in 1 .. 12
            /\ line.date.day \in 1 .. MonthDays[line.date.month]
         THEN LocalDate(line.date.month, line.date.day, tz)
         ELSE Null

\* parseDateFromHeader(header)
parseDateFromHeader(line, format, tz) ==
    IF format = "" THEN Null ELSE extractDateFromHeader(line, tz)

\* isJournalStyleNote(content)
isJournalStyleNote(content, format) ==
    IF format = "" THEN FALSE
    ELSE \E i \in 1 .. Len(content) : MatchesFormat(content[i])

\* lines.join('\n').trim(): the blank lines at either end go
RECURSIVE TrimStart(_)
TrimStart(lines) ==
    IF lines = <<>> THEN <<>>
    ELSE IF Head(lines) = Blank THEN TrimStart(Tail(lines)) ELSE lines

RECURSIVE TrimEnd(_)
TrimEnd(lines) ==
    IF lines = <<>> THEN <<>>
    ELSE IF lines[Len(lines)] = Blank THEN TrimEnd(SubSeq(lines, 1, Len(lines) - 1))
         ELSE lines

Trim(lines) ==
    IF TrimEnd(TrimStart(lines)) = <<>> THEN EmptyText ELSE TrimEnd(TrimStart(lines))

\* faulty variant: the date of the section is not kept
SectionUndated(date, lines) == [date |-> Null, content |-> Trim(lines)]

\* {date, content: currentSection.join('\n').trim()}
Section(date, lines) == [date |-> date, content |-> Trim(lines)]

\* getDateSections(content): the loop over the lines from line i on, then the
\* push of the last section
RECURSIVE DateSectionsFrom(_, _, _, _, _, _, _, _)
DateSectionsFrom(lines, i, sections, currentSection, currentDate, found, format, tz) ==
    IF i > Len(lines)
    THEN IF currentSection # <<>>
         THEN Append(sections, Section(currentDate, currentSection))
         ELSE sections
    ELSE LET parsedDate == parseDateFromHeader(lines[i], format, tz)
         IN IF parsedDate # Null
            THEN DateSectionsFrom(lines, i + 1,
                    IF currentSection # <<>>
                    THEN Append(sections,
                                Section(IF found THEN currentDate ELSE Null,
                                        currentSection))
                    ELSE sections,
                    <<lines[i]>>, parsedDate, TRUE, format, tz)
            ELSE DateSectionsFrom(lines, i + 1, sections,
                    Append(currentSection, lines[i]), currentDate, found, format, tz)

getDateSections(content, format, tz) ==
    DateSectionsFrom(content, 1, <<>>, <<>>, Null, FALSE, format, tz)

\* cutoffDate: setDate(getDate() - daysBack), setHours(0, 0, 0, 0)
CutoffDate(daysBack, now, tz) == SetHours(now, tz, 0) - daysBack * TicksPerDay

\* faulty variant: a section dated on the cutoff day is dropped
KeepsSectionAfter(date, cutoffDate) == date = Null \/ date > cutoffDate

\* section.date === null || section.date >= cutoffDate
KeepsSection(date, cutoffDate) == date = Null \/ date >= cutoffDate

\* filteredSections.join('\n\n')
RECURSIVE JoinSections(_)
JoinSections(sections) ==
    IF sections = <<>> THEN EmptyText
    ELSE IF Len(sections) = 1 THEN sections[1]
         ELSE sections[1] \o <<Blank>> \o JoinSections(Tail(sections))

RECURSIVE FilterSections(_, _)
FilterSections(sections, cutoffDate) ==
    IF sections = <<>> THEN <<>>
    ELSE (IF KeepsSection(Head(sections).date, cutoffDate)
          THEN <<Head(sections).content>> ELSE <<>>)
         \o FilterSections(Tail(sections), cutoffDate)

\* extractContentByDateRange(content, daysBack)
extractContentByDateRange(content, daysBack, format, now, tz) ==
    IF ~isJournalStyleNote(content, format) THEN content
    ELSE JoinSections(FilterSections(getDateSections(content, format, tz),
                                     CutoffDate(daysBack, now, tz)))

\* what the model draws from
Lines == { Blank, Ordinary, Header(2, 28), Header(3, 1), Header(13, 1) }

RECURSIVE TextsOfLines(_)
TextsOfLines(n) ==
    IF n = 1 THEN { <<l>> : l \in Lines }
    ELSE TextsOfLines(n - 1)
         \cup { Append(t, l) : t \in TextsOfLines(n - 1), l \in Lines }

\* ---- DistillService.aggregateContent ---------------------------------------------
\* the line `# Note: ${file.basename}` of the boundary marker
Marker(title) == [kind |-> "marker", date |-> NoDate, title |-> title]

\* content.trim() is empty
IsBlankText(text) == \A i \in 1 .. Len(text) : text[i] = Blank

\* timeWindowDays !== undefined && timeWindowDays > 0
HasWindow(timeWindowDays) == timeWindowDays # Null /\ timeWindowDays > 0

\* aggregatedContent += `\n\n# Note: ${file.basename}\n\n${content}`
AppendNote(aggregated, title, content) ==
    aggregated \o <<Blank, Marker(title), Blank>> \o content

NoAggregate ==
    [done |-> FALSE, next |-> 1, content |-> EmptyText, sourceNotes |-> <<>>,
     processedFiles |-> {}]

\* one iteration of `for (const file of files)` of aggregateContent
AggregateStep(c, acc) ==
    LET file == c.files[acc.next]
        read == c.texts[file]
        content == IF HasWindow(c.timeWindowDays)
                   THEN extractContentByDateRange(read, c.timeWindowDays, c.format,
                                                  c.now, c.tz)
                   ELSE read
    IN IF file \in acc.processedFiles
       THEN [acc EXCEPT !.next = @ + 1]
       ELSE IF HasWindow(c.timeWindowDays) /\ IsBlankText(content)
            THEN [acc EXCEPT !.next = @ + 1]
            ELSE [acc EXCEPT !.next = @ + 1,
                             !.content = AppendNote(@, file, content),
                             !.sourceNotes = Append(@, file),
                             !.processedFiles = @ \cup {file}]

\* ---- filename-utils: sanitizeFilename and BacklinkMapper -------------------------
\* A string is the sequence of its characters; "/" stands for any character
\* of the class [\\/:*?"<>|], as does ":".
Special == {"/", ":"}

\* filename.replace(/[\\/:*?"<>|]/g, ' - ')
RECURSIVE sanitizeFilename(_)
sanitizeFilename(filename) ==
    IF filename = <<>> THEN <<>>
    ELSE (IF Head(filename) \in Special THEN <<" ", "-", " ">> ELSE <<Head(filename)>>)
         \o sanitizeFilename(Tail(filename))

\* titleToFilenameMap.set(title, sanitizedFilename)
registerTitle(map, title, sanitizedFilename) ==
    [t \in (DOMAIN map) \cup {title} |->
        IF t = title THEN sanitizedFilename ELSE map[t]]

\* faulty variant: the registered name is written as a path, after a separator
LookupAsPath(map, title) ==
    IF title \in DOMAIN map /\ map[title] # <<>>
    THEN <<"/">> \o map[title] ELSE sanitizeFilename(title)

\* titleToFilenameMap.get(title) || sanitizeFilename(title)
Lookup(map, title) ==
    IF title \in DOMAIN map /\ map[title] # <<>>
    THEN map[title] ELSE sanitizeFilename(title)

\* the position of the first "]]" at or after position j, 0 if there is none
ClosingAt(content, j) ==
    LET ks == { k \in j .. (Len(content) - 1) :
                  content[k] = "]" /\ content[k + 1] = "]" }
    IN IF ks = {} THEN 0 ELSE CHOOSE k \in ks : \A l \in ks : k <= l

\* content.replace(/\[\[(.*?)\]\]/g, ...) from position i on
RECURSIVE ProcessFrom(_, _, _)
ProcessFrom(content, i, map) ==
    IF i > Len(content) THEN <<>>
    ELSE IF /\ i + 1 <= Len(content)
            /\ content[i] = "[" /\ content[i + 1] = "["
            /\ ClosingAt(content, i + 2) # 0
         THEN LET k == ClosingAt(content, i + 2)
              IN <<"[", "[">> \o Lookup(map, SubSeq(content, i + 2, k - 1))
                 \o <<"]", "]">> \o ProcessFrom(content, k + 2, map)
         ELSE <<content[i]>> \o ProcessFrom(content, i + 1, map)

\* BacklinkMapper.processBacklinks(content)
processBacklinks(content, map) == ProcessFrom(content, 1, map)

\* `${baseWithoutExt}-${counter}${extension}`; a path is written without its
\* folder and without its extension
WithCounter(basePath, counter) == basePath \o <<"-", ToString(counter)>>

MaxCounter == 99

\* createFileWithCollisionHandling(vault, basePath, content): the path of the
\* file created in a folder that holds the files `folder`
createFileWithCollisionHandling(folder, basePath) ==
    IF basePath \notin folder THEN basePath
    ELSE LET free == { c \in 1 .. MaxCounter : WithCounter(basePath, c) \notin folder }
         IN IF free # {}
            THEN WithCounter(basePath, CHOOSE c \in free : \A d \in free : c <= d)
            ELSE basePath \o <<"-", "timestamp">>

\* the text "[[title]]"
LinkTo(title) == <<"[", "[">> \o title \o <<"]", "]">>

\* ---- one gatherContext invocation -----------------------------------------
NoItem == [file |-> -1, depth |-> -1, via |-> -1]
NoWindow == [mode |-> "none", daysBack |-> 0, fromDate |-> NoDate, toDate |-> NoDate]
Unread == << <<"?">> >>

\* no exception has reached executeContextGathering
NoError == [op |-> "none", file |-> Null]

Idle ==
    [pc |-> "idle", sourceMode |-> "none", linkDepth |-> 0, maxCharacters |-> 0,
     excludeFolders |-> Unread, timeWindow |-> NoWindow,
     discovered |-> <<>>, queue |-> <<>>, totalChars |-> 0, cur |-> NoItem,
     expanded |-> {}, notes |-> <<>>,
     now |-> Null, tz |-> 0, startTime |-> Null, endTime |-> Null,
     recentFiles |-> <<>>, totalCharacters |-> Null, sourceNotes |-> <<>>,
     error |-> NoError, warned |-> {}]

\* gatherContext(config) called with sourceMode linked-notes
LinkedRun(depth, budget) ==
    [Idle EXCEPT !.pc = "start", !.sourceMode = "linked-notes",
                 !.linkDepth = depth, !.maxCharacters = budget]

\* ---- discoverLinkedNotes ---------------------------------------------------
\* vault.read(rootNote); discovered.set(rootNote.path, {depth 0, 'root', included})
ReadRoot(r) ==
    /\ run[r].pc = "start"
    /\ \E c \in Contents(0) :
          /\ store' = [store EXCEPT ![0] = c]
          /\ known' = Met(known, Targets(c.text))
          /\ run' = [run EXCEPT ![r] = [@ EXCEPT
                !.discovered = MapSet(@, DiscoveredNote(0, 0, Root, c.chars, TRUE)),
                !.totalChars = c.chars,
                !.pc = "rootLinks"]]
    /\ UNCHANGED <<files, note, linked, call, result>>

\* getLinkedNotes(rootNote); every link is queued at depth 1
RootLinks(r) ==
    /\ run[r].pc = "rootLinks"
    /\ run' = [run EXCEPT ![r] = [@ EXCEPT
          !.queue = [i \in 1 .. Len(getLinkedNotes(0)) |->
                       [file |-> getLinkedNotes(0)[i], depth |-> 1,
                        via |-> Basename(0)]],
          !.expanded = @ \cup {0},
          !.pc = "loop"]]
    /\ UNCHANGED <<store, known, files, note, linked, call, result>>

\* faulty variant: queue.pop() in place of queue.shift()
ShiftFromEnd(q) == [item |-> q[Len(q)], rest |-> SubSeq(q, 1, Len(q) - 1)]

\* queue.shift()
Shift(q) == [item |-> Head(q), rest |-> Tail(q)]

\* queue.shift() of an entry whose path is already in `discovered`
BfsSkip(r) ==
    /\ run[r].pc = "loop"
    /\ run[r].queue # <<>>
    /\ MapHas(run[r].discovered, Shift(run[r].queue).item.file)
    /\ run' = [run EXCEPT ![r] = [@ EXCEPT !.queue = Shift(@).rest]]
    /\ UNCHANGED <<store, known, files, note, linked, call, result>>

\* faulty variant: the running total left out of the test
OverBudgetAlone(total, chars, limit) == chars > limit

\* totalChars + chars > maxCharacters
OverBudget(total, chars, limit) == total + chars > limit

\* faulty variant: the overflow branch falls through to the link traversal
ExpandsExcluded(included, depth, limit) == depth < limit

\* faulty variant: depth <= maxDepth
ExpandsAtLimit(included, depth, limit) == included /\ depth <= limit

\* the `continue` of the overflow branch, then depth < maxDepth
Expands(included, depth, limit) == included /\ depth < limit

\* faulty variant: a note that does not fit is counted too
AddCharsAlways(totalChars, chars, over) == totalChars + chars

\* totalChars += chars, which the `continue` of the overflow branch skips
AddChars(totalChars, chars, over) == IF over THEN totalChars ELSE totalChars + chars

\* queue.shift(), vault.read(file), the character-limit test, discovered.set
BfsVisit(r) ==
    /\ run[r].pc = "loop"
    /\ run[r].queue # <<>>
    /\ LET item == Shift(run[r].queue).item
           rest == Shift(run[r].queue).rest
       IN /\ ~MapHas(run[r].discovered, item.file)
          /\ \E c \in Contents(item.file) :
               LET over == OverBudget(run[r].totalChars, c.chars, run[r].maxCharacters)
                   links == Expands(~over, item.depth, run[r].linkDepth)
               IN /\ store' = [store EXCEPT ![item.file] = c]
                  /\ known' = Met(known, Targets(c.text))
                  /\ run' = [run EXCEPT ![r] = [@ EXCEPT
                        !.queue = rest,
                        !.discovered = MapSet(@, DiscoveredNote(item.file,
                              item.depth, LinkedFrom(item.via), c.chars, ~over)),
                        !.totalChars = AddChars(@, c.chars, over),
                        !.cur = IF links THEN item ELSE @,
                        !.pc = IF links THEN "links" ELSE @]]
    /\ UNCHANGED <<files, note, linked, call, result>>

\* queue.push({file, depth + 1, via}) unless discovered.has(linkedNote.path)
RECURSIVE EnqueueLinks(_, _, _, _)
EnqueueLinks(q, links, disc, item) ==
    IF links = <<>> THEN q
    ELSE EnqueueLinks(
            IF ~MapHas(disc, Head(links))
            THEN Append(q, [file |-> Head(links), depth |-> item.depth + 1,
                            via |-> Basename(item.file)])
            ELSE q,
            Tail(links), disc, item)

\* getLinkedNotes(file) of an included note below the depth limit
BfsLinks(r) ==
    /\ run[r].pc = "links"
    /\ run' = [run EXCEPT ![r] = [@ EXCEPT
          !.queue = EnqueueLinks(@, getLinkedNotes(run[r].cur.file),
                                 run[r].discovered, run[r].cur),
          !.expanded = @ \cup {run[r].cur.file},
          !.cur = NoItem,
          !.pc = "loop"]]
    /\ UNCHANGED <<store, known, files, note, linked, call, result>>

\* faulty variant: the comparator stops at the depth
NoteBeforeByDepth(a, b) == a.depth < b.depth

\* a.depth - b.depth, then a.file.basename.localeCompare(b.file.basename)
NoteBefore(a, b) ==
    IF a.depth # b.depth THEN a.depth < b.depth
    ELSE Basename(a.file) < Basename(b.file)

RECURSIVE Insert(_, _)
Insert(sorted, x) ==
    IF sorted = <<>> THEN <<x>>
    ELSE IF NoteBefore(x, Head(sorted)) THEN <<x>> \o sorted
         ELSE <<Head(sorted)>> \o Insert(Tail(sorted), x)

\* Array.prototype.sort (stable) with the comparator NoteBefore
RECURSIVE SortNotes(_)
SortNotes(s) ==
    IF s = <<>> THEN <<>>
    ELSE Insert(SortNotes(SubSeq(s, 1, Len(s) - 1)), s[Len(s)])

\* the queue is empty: return Array.from(discovered.values()).sort(...)
ReturnLinked(r) ==
    /\ run[r].pc = "loop"
    /\ run[r].queue = <<>>
    /\ run' = [run EXCEPT ![r] = [@ EXCEPT
          !.notes = SortNotes(run[r].discovered),
          !.pc = "discovered"]]
    /\ UNCHANGED <<store, known, files, note, linked, call, result>>

\* ---- ContextGatheringModal, recent activity ---------------------------------
\* the modal opened with sourceMode recent-activity: renderRecentActivitySettings
\* sets timeWindow to {mode: 'days-back', daysBack: <the setting>}
RecentModal(daysBack, excludeFolders) ==
    [Idle EXCEPT !.pc = "modal", !.sourceMode = "recent-activity",
                 !.excludeFolders = excludeFolders,
                 !.timeWindow = [mode |-> "days-back", daysBack |-> daysBack,
                                 fromDate |-> NoDate, toDate |-> NoDate]]

\* the Time window dropdown's onChange
SetMode(r) ==
    /\ run[r].pc = "modal"
    /\ \E value \in {"days-back", "date-range"} :
          /\ value # run[r].timeWindow.mode
          /\ run' = [run EXCEPT ![r].timeWindow.mode = value]
    /\ UNCHANGED <<store, known, files, note, linked, call, result>>

\* the Days back text's onChange: kept only if it parses to a number above 0
SetDaysBack(r) ==
    /\ run[r].pc = "modal"
    /\ run[r].timeWindow.mode = "days-back"
    /\ \E days \in DaysBackInputs :
          /\ days > 0
          /\ run' = [run EXCEPT ![r].timeWindow.daysBack = days]
    /\ UNCHANGED <<store, known, files, note, linked, call, result>>

\* the From date text's onChange (NoDate: the field emptied)
SetFromDate(r) ==
    /\ run[r].pc = "modal"
    /\ run[r].timeWindow.mode = "date-range"
    /\ \E value \in DateInputs : run' = [run EXCEPT ![r].timeWindow.fromDate = value]
    /\ UNCHANGED <<store, known, files, note, linked, call, result>>

\* the To date text's onChange
SetToDate(r) ==
    /\ run[r].pc = "modal"
    /\ run[r].timeWindow.mode = "date-range"
    /\ \E value \in DateInputs : run' = [run EXCEPT ![r].timeWindow.toDate = value]
    /\ UNCHANGED <<store, known, files, note, linked, call, result>>

\* Discover Notes: onSubmit(config), which calls gatherContext(config)
Submit(r) ==
    /\ run[r].pc = "modal"
    /\ run' = [run EXCEPT ![r].pc = "recent"]
    /\ UNCHANGED <<store, known, files, note, linked, call, result>>

\* ---- getRecentlyModifiedNotes ---------------------------------------------------
\* the arguments discoverRecentNotes passes: timeWindow.daysBack || 7 (the
\* modal keeps daysBack above 0), fromDate and toDate, whatever the mode
\* startTime and endTime of getRecentlyModifiedNotes(daysBack, _, fromDate, toDate)
Window(daysBack, fromDate, toDate, now, tz) ==
    IF fromDate # NoDate /\ toDate # NoDate
    THEN [startTime |-> SetHours(ParseDate(fromDate), tz, 0),
          endTime |-> SetHours(ParseDate(toDate), tz, TicksPerDay - 1)]
    ELSE [startTime |-> now - daysBack * TicksPerDay, endTime |-> now]

\* discoverRecentNotes calls getRecentlyModifiedNotes, which reads the clock
ComputeWindow(r) ==
    /\ run[r].pc = "recent"
    /\ \E now \in Nows, tz \in Zones :
          LET w == Window(run[r].timeWindow.daysBack, run[r].timeWindow.fromDate,
                          run[r].timeWindow.toDate, now, tz)
          IN run' = [run EXCEPT ![r] = [@ EXCEPT
                !.now = now, !.tz = tz,
                !.startTime = w.startTime, !.endTime = w.endTime,
                !.pc = "scan"]]
    /\ UNCHANGED <<store, known, files, note, linked, call, result>>

\* fileTime >= startTime && fileTime <= endTime
InWindow(t, startTime, endTime) == t >= startTime /\ t <= endTime

\* the filename-date test of the loop body
ByFilename(name, tz, startTime, endTime) ==
    /\ extractDateFromFilename(name, tz) # Null
    /\ InWindow(extractDateFromFilename(name, tz), startTime, endTime)

\* the loop body: isExcluded -> continue; filename date; else stat().mtime
IncludeFile(file, excludeFolders, tz, startTime, endTime) ==
    IF IsExcluded(file.dir, excludeFolders) THEN FALSE
    ELSE IF ByFilename(file.name, tz, startTime, endTime) THEN TRUE
         ELSE InWindow(file.mtime, startTime, endTime)

File(dir, name, mtime) == [dir |-> dir, name |-> name, mtime |-> mtime, chars |-> -1]

\* the next file of getMarkdownFiles(), with the attributes the loop body reads:
\* no name or mtime of a file under an excluded folder, no mtime of a file
\* taken for its filename date
NextFiles(r) ==
    LET ex == run[r].excludeFolders
        tz == run[r].tz
        st == run[r].startTime
        en == run[r].endTime
    IN { File(d, NoDate, Null) : d \in { x \in DirSet : IsExcluded(x, ex) } }
       \cup { File(d, n, Null) :
                d \in { x \in DirSet : ~IsExcluded(x, ex) },
                n \in { x \in Names : ByFilename(x, tz, st, en) } }
       \cup { File(d, n, m) :
                d \in { x \in DirSet : ~IsExcluded(x, ex) },
                n \in { x \in Names : ~ByFilename(x, tz, st, en) },
                m \in Mtimes }

\* one iteration of `for (const file of files)`
ScanFile(r) ==
    /\ run[r].pc = "scan"
    /\ Len(files) < NumFiles
    /\ \E f \in NextFiles(r) :
          /\ files' = Append(files, f)
          /\ run' = [run EXCEPT ![r].recentFiles =
                IF IncludeFile(f, run[r].excludeFolders, run[r].tz,
                               run[r].startTime, run[r].endTime)
                THEN Append(@, Len(files) + 1) ELSE @]
    /\ UNCHANGED <<store, known, note, linked, call, result>>

\* filenameDate ? filenameDate.getTime() : (stats?.mtime || 0)
EffectiveTime(file, tz) ==
    IF extractDateFromFilename(file.name, tz) # Null
    THEN extractDateFromFilename(file.name, tz)
    ELSE IF file.mtime = Null THEN 0 ELSE file.mtime

RECURSIVE InsertRecent(_, _, _)
InsertRecent(sorted, x, tz) ==
    IF sorted = <<>> THEN <<x>>
    ELSE IF EffectiveTime(files[x], tz) > EffectiveTime(files[Head(sorted)], tz)
         THEN <<x>> \o sorted
         ELSE <<Head(sorted)>> \o InsertRecent(Tail(sorted), x, tz)

\* filesWithDates.sort((a, b) => b.effectiveTime - a.effectiveTime), stable
RECURSIVE SortRecent(_, _)
SortRecent(s, tz) ==
    IF s = <<>> THEN <<>>
    ELSE InsertRecent(SortRecent(SubSeq(s, 1, Len(s) - 1), tz), s[Len(s)], tz)

\* the listing is exhausted: sort by effective time and return
ReturnRecent(r) ==
    /\ run[r].pc = "scan"
    /\ run' = [run EXCEPT ![r] = [@ EXCEPT
          !.recentFiles = SortRecent(@, run[r].tz),
          !.pc = "read"]]
    /\ UNCHANGED <<store, known, files, note, linked, call, result>>

\* ---- discoverRecentNotes --------------------------------------------------------
\* one iteration of `for (const file of recentFiles)`: vault.read, discovered.push
ReadRecent(r) ==
    /\ run[r].pc = "read"
    /\ Len(run[r].discovered) < Len(run[r].recentFiles)
    /\ LET file == run[r].recentFiles[Len(run[r].discovered) + 1]
       IN \E chars \in 0 .. MaxExtra :
             /\ files' = [files EXCEPT ![file].chars = chars]
             /\ run' = [run EXCEPT ![r].discovered =
                   Append(@, DiscoveredNote(file, 0, RecentActivity, chars, TRUE))]
    /\ UNCHANGED <<store, known, note, linked, call, result>>

\* return discovered
DiscoverRecentDone(r) ==
    /\ run[r].pc = "read"
    /\ Len(run[r].discovered) = Len(run[r].recentFiles)
    /\ run' = [run EXCEPT ![r] = [@ EXCEPT
          !.notes = run[r].discovered,
          !.pc = "discovered"]]
    /\ UNCHANGED <<store, known, files, note, linked, call, result>>

\* ---- applyFolderFilters ------------------------------------------------------
FileDir(r, file) ==
    IF run[r].sourceMode = "linked-notes" THEN NoteDir(file) ELSE files[file].dir

\* notes.map(note => isExcluded && note.included ? {...note, included: false} : note)
FilterNotes(r, notes, excludeFolders) ==
    [i \in 1 .. Len(notes) |->
        IF IsExcluded(FileDir(r, notes[i].file), excludeFolders) /\ notes[i].included
        THEN [notes[i] EXCEPT !.included = FALSE]
        ELSE notes[i]]

\* config.excludeFolders as read by a linked-notes run at this point
FolderLists(r) ==
    IF run[r].excludeFolders = Unread THEN ExcludeLists ELSE {run[r].excludeFolders}

ApplyFolderFilters(r) ==
    /\ run[r].pc = "discovered"
    /\ \E ex \in FolderLists(r) :
          run' = [run EXCEPT ![r] = [@ EXCEPT
              !.excludeFolders = ex,
              !.notes = FilterNotes(r, @, ex),
              !.pc = "filtered"]]
    /\ UNCHANGED <<store, known, files, note, linked, call, result>>

\* ---- gatherContext: aggregation and return -----------------------------------------
\* the length of one boundary marker, "\n\n# Note: <basename>\n\n"
MarkerChars == 1

\* the length of what aggregateContent appends for the files of `ns` from
\* position i on: vault.read gives the text discovery read; the notes of the
\* model hold no date header, so with a journal window only a blank note
\* (here: an empty one) is left out
RECURSIVE AggregatedChars(_, _, _, _)
AggregatedChars(ns, i, seen, filter) ==
    IF i > Len(ns) THEN 0
    ELSE IF ns[i].file \in seen \/ (filter /\ ns[i].estimatedChars = 0)
         THEN AggregatedChars(ns, i + 1, seen, filter)
         ELSE MarkerChars + ns[i].estimatedChars
              + AggregatedChars(ns, i + 1, seen \cup {ns[i].file}, filter)

RECURSIVE AggregatedNotes(_, _, _, _)
AggregatedNotes(ns, i, seen, filter) ==
    IF i > Len(ns) THEN <<>>
    ELSE IF ns[i].file \in seen \/ (filter /\ ns[i].estimatedChars = 0)
         THEN AggregatedNotes(ns, i + 1, seen, filter)
         ELSE << ns[i].file >>
              \o AggregatedNotes(ns, i + 1, seen \cup {ns[i].file}, filter)

\* discoveredNotes.filter(n => n.included)
IncludedNotes(ns) == SelectSeq(ns, LAMBDA n : n.included)

\* aggregateContent(includedNotes, filterRecentSectionsOnly ? journalSectionDays
\* : undefined) and the return of gatherContext
Aggregate(r) ==
    /\ run[r].pc = "filtered"
    /\ \E filterRecentSectionsOnly \in BOOLEAN :
          run' = [run EXCEPT ![r] = [@ EXCEPT
              !.totalCharacters = AggregatedChars(IncludedNotes(run[r].notes), 1, {},
                                                  filterRecentSectionsOnly),
              !.sourceNotes = AggregatedNotes(IncludedNotes(run[r].notes), 1, {},
                                              filterRecentSectionsOnly),
              !.pc = "returned"]]
    /\ UNCHANGED <<store, known, files, note, linked, call, result>>

\* ---- specification: one gatherContext invocation ---------------------------------
Init ==
    /\ store = [n \in NoteIds |-> NoContent]
    /\ known = 1
    /\ files = <<>>
    /\ note = <<>>
    /\ linked = NotResolved
    /\ call = NoCall
    /\ result = NoResult
    /\ \/ \E d \in Depths, b \in Budgets :
             run = [r \in RunIds |-> IF r = 1 THEN LinkedRun(d, b) ELSE Idle]
       \/ \E days \in DaysBackInputs \ {0}, ex \in ExcludeLists :
             run = [r \in RunIds |-> IF r = 1 THEN RecentModal(days, ex) ELSE Idle]

Next ==
    \/ ReadRoot(1)
    \/ RootLinks(1)
    \/ BfsSkip(1)
    \/ BfsVisit(1)
    \/ BfsLinks(1)
    \/ ReturnLinked(1)
    \/ SetMode(1)
    \/ SetDaysBack(1)
    \/ SetFromDate(1)
    \/ SetToDate(1)
    \/ Submit(1)
    \/ ComputeWindow(1)
    \/ ScanFile(1)
    \/ ReturnRecent(1)
    \/ ReadRecent(1)
    \/ DiscoverRecentDone(1)
    \/ ApplyFolderFilters(1)
    \/ Aggregate(1)

Spec == Init /\ [][Next]_vars

\* ---- specification: discoverLinkedNotes run again with a larger maxDepth ----------
\* the first run has returned; the same root, vault and maxCharacters are given to
\* a second run with a larger maxDepth
Rerun(r1, r2) ==
    /\ run[r1].pc = "discovered"
    /\ run[r2].pc = "idle"
    /\ \E d \in Depths :
          /\ d > run[r1].linkDepth
          /\ run' = [run EXCEPT ![r2] = LinkedRun(d, run[r1].maxCharacters)]
    /\ UNCHANGED <<store, known, files, note, linked, call, result>>

InitRerun ==
    /\ store = [n \in NoteIds |-> NoContent]
    /\ known = 1
    /\ files = <<>>
    /\ note = <<>>
    /\ linked = NotResolved
    /\ call = NoCall
    /\ result = NoResult
    /\ \E d \in Depths, b \in Budgets :
          run = [r \in RunIds |-> IF r = 1 THEN LinkedRun(d, b) ELSE Idle]

NextRerun ==
    \/ \E r \in RunIds :
          \/ ReadRoot(r)
          \/ RootLinks(r)
          \/ BfsSkip(r)
          \/ BfsVisit(r)
          \/ BfsLinks(r)
          \/ ReturnLinked(r)
    \/ Rerun(1, 2)

SpecRerun == InitRerun /\ [][NextRerun]_vars

\* ---- specification: getLinkedNotes on one note --------------------------------
Markers == {" ", "x", "X"}
LinkTargets == {-1, 1, 2}
Tokens ==
    { Token(k, " ", t) : k \in {"link", "embed", "query"}, t \in LinkTargets }
    \cup { Token("box", m, t) : m \in Markers, t \in LinkTargets }

RECURSIVE Texts(_)
Texts(n) ==
    IF n = 0 THEN { <<>> }
    ELSE Texts(n - 1) \cup { Append(t, tok) : t \in Texts(n - 1), tok \in Tokens }

\* getLinkedNotes(file), with either value of settings.useDataviewIfAvailable
Resolve ==
    /\ ~linked.done
    /\ \E useDataview \in BOOLEAN :
          linked' = [done |-> TRUE, files |-> GetLinkedNotes(note, useDataview),
                     useDataview |-> useDataview]
    /\ UNCHANGED <<store, known, files, run, note, call, result>>

InitResolve ==
    /\ store = [n \in NoteIds |-> NoContent]
    /\ known = 1
    /\ files = <<>>
    /\ run = [r \in RunIds |-> Idle]
    /\ note \in Texts(MaxTokens)
    /\ linked = NotResolved
    /\ call = NoCall
    /\ result = NoResult

NextResolve == Resolve

SpecResolve == InitResolve /\ [][NextResolve]_vars

\* ---- specification: extractContentByDateRange on one text --------------------
FilterJournal ==
    /\ call.op = "extractContentByDateRange"
    /\ ~result.done
    /\ result' = [done |-> TRUE,
                  value |-> extractContentByDateRange(call.content, call.daysBack,
                                                      call.format, call.now, call.tz)]
    /\ UNCHANGED <<store, known, files, run, note, linked, call>>

InitJournal ==
    /\ store = [n \in NoteIds |-> NoContent]
    /\ known = 1
    /\ files = <<>>
    /\ run = [r \in RunIds |-> Idle]
    /\ note = <<>>
    /\ linked = NotResolved
    /\ \E content \in TextsOfLines(MaxLines), format \in Formats,
          daysBack \in 0 .. MaxDaysBack, now \in Nows, tz \in Zones :
          call = [op |-> "extractContentByDateRange", content |-> content,
                  format |-> format, daysBack |-> daysBack, now |-> now, tz |-> tz]
    /\ result = NoResult

NextJournal == FilterJournal

SpecJournal == InitJournal /\ [][NextJournal]_vars

\* ---- specification: aggregateContent on a list of files ------------------------
AggregateTexts ==
    { EmptyText, <<Blank, Blank>>, <<Ordinary>>, <<Header(2, 28), Ordinary>>,
      <<Ordinary, Header(3, 1)>> }

FileLists ==
    UNION { [1 .. n -> 1 .. NumFiles] : n \in 1 .. (NumFiles + 1) }

\* vault.read(file) and the rest of one loop iteration
AggregateFile ==
    /\ call.op = "aggregateContent"
    /\ ~result.done
    /\ result.next <= Len(call.files)
    /\ result' = AggregateStep(call, result)
    /\ UNCHANGED <<store, known, files, run, note, linked, call>>

\* return { content: aggregatedContent, sourceNotes }
AggregateReturn ==
    /\ call.op = "aggregateContent"
    /\ ~result.done
    /\ result.next > Len(call.files)
    /\ result' = [result EXCEPT !.done = TRUE]
    /\ UNCHANGED <<store, known, files, run, note, linked, call>>

InitAggregate ==
    /\ store = [n \in NoteIds |-> NoContent]
    /\ known = 1
    /\ files = <<>>
    /\ run = [r \in RunIds |-> Idle]
    /\ note = <<>>
    /\ linked = NotResolved
    /\ \E fs \in FileLists, texts \in [1 .. NumFiles -> AggregateTexts],
          days \in {Null} \cup (1 .. MaxDaysBack), tz \in Zones :
          call = [op |-> "aggregateContent", files |-> fs, texts |-> texts,
                  timeWindowDays |-> days, format |-> "### YYYY-MM-DD",
                  now |-> DayOfYear(3, 2) * TicksPerDay, tz |-> tz]
    /\ result = NoAggregate

NextAggregate == AggregateFile \/ AggregateReturn

SpecAggregate == InitAggregate /\ [][NextAggregate]_vars

\* ---- specification: a linked-notes run whose reads may fail -----------------------
\* the link depths and character limits a configuration may hold: the valid
\* ones, and 0, one depth above the slider's range and a limit of 0
ConfigDepths == Depths \cup {0, 4}
ConfigBudgets == Budgets \cup {0}

\* the catch of executeContextGathering: the error is reported, no result is shown
Failed(r, op, file) ==
    [run[r] EXCEPT !.pc = "failed", !.error = [op |-> op, file |-> file]]

\* vault.read(rootNote) throws
ReadRootFails(r) ==
    /\ run[r].pc = "start"
    /\ run' = [run EXCEPT ![r] = Failed(r, "read", 0)]
    /\ UNCHANGED <<store, known, files, note, linked, call, result>>

\* getLinkedNotes(rootNote) throws; the call is in no try block
RootLinksFails(r) ==
    /\ run[r].pc = "rootLinks"
    /\ run' = [run EXCEPT ![r] = Failed(r, "getLinkedNotes", 0)]
    /\ UNCHANGED <<store, known, files, note, linked, call, result>>

\* queue.shift(), then vault.read(file) throws; the call is in no try block
BfsReadFails(r) ==
    /\ run[r].pc = "loop"
    /\ run[r].queue # <<>>
    /\ ~MapHas(run[r].discovered, Shift(run[r].queue).item.file)
    /\ run' = [run EXCEPT ![r] =
          [Failed(r, "read", Shift(run[r].queue).item.file)
              EXCEPT !.queue = Shift(run[r].queue).rest]]
    /\ UNCHANGED <<store, known, files, note, linked, call, result>>

\* getLinkedNotes(file) throws inside the try block: console.warn, the loop goes on
BfsLinksFails(r) ==
    /\ run[r].pc = "links"
    /\ run' = [run EXCEPT ![r] = [@ EXCEPT
          !.warned = @ \cup {run[r].cur.file},
          !.cur = NoItem,
          !.pc = "loop"]]
    /\ UNCHANGED <<store, known, files, note, linked, call, result>>

\* vault.read(file) throws in aggregateContent, for one of the included notes
AggregateFails(r) ==
    /\ run[r].pc = "filtered"
    /\ \E i \in DOMAIN IncludedNotes(run[r].notes) :
          run' = [run EXCEPT ![r] =
              Failed(r, "read", IncludedNotes(run[r].notes)[i].file)]
    /\ UNCHANGED <<store, known, files, note, linked, call, result>>

InitFaults ==
    /\ store = [n \in NoteIds |-> NoContent]
    /\ known = 1
    /\ files = <<>>
    /\ note = <<>>
    /\ linked = NotResolved
    /\ call = NoCall
    /\ result = NoResult
    /\ \E d \in ConfigDepths, b \in ConfigBudgets :
          run = [r \in RunIds |-> IF r = 1 THEN LinkedRun(d, b) ELSE Idle]

NextFaults ==
    \/ ReadRoot(1)
    \/ ReadRootFails(1)
    \/ RootLinks(1)
    \/ RootLinksFails(1)
    \/ BfsSkip(1)
    \/ BfsVisit(1)
    \/ BfsReadFails(1)
    \/ BfsLinks(1)
    \/ BfsLinksFails(1)
    \/ ReturnLinked(1)
    \/ ApplyFolderFilters(1)
    \/ Aggregate(1)
    \/ AggregateFails(1)

SpecFaults == InitFaults /\ [][NextFaults]_vars

\* ---- specification: two gatherContext invocations, interleaved -------------------
\* faulty variant: the dictionary and the running total are fields of the
\* service, so the second invocation starts from those of the first
SharedSession(first, depth, budget) ==
    [LinkedRun(depth, budget) EXCEPT !.discovered = first.discovered,
                                     !.totalChars = first.totalChars]

\* const discovered = new Map(); const queue = []: locals of the invocation
FreshSession(first, depth, budget) == LinkedRun(depth, budget)

\* gatherContext is called again while the invocation r1 is under way,
\* with the other character limit and the next depth (which of two invocations
\* is called first makes no difference to the steps that can follow)
Reenter(r1, r2) ==
    /\ run[r1].pc \notin {"idle", "discovered"}
    /\ run[r2].pc = "idle"
    /\ \E d \in Depths, b \in Budgets :
          /\ d = run[r1].linkDepth + 1
          /\ b # run[r1].maxCharacters
          /\ run' = [run EXCEPT ![r2] = FreshSession(run[r1], d, b)]
    /\ UNCHANGED <<store, known, files, note, linked, call, result>>

InitInterleave ==
    /\ store = [n \in NoteIds |-> NoContent]
    /\ known = 1
    /\ files = <<>>
    /\ note = <<>>
    /\ linked = NotResolved
    /\ call = NoCall
    /\ result = NoResult
    /\ \E d \in Depths, b \in Budgets :
          run = [r \in RunIds |-> IF r = 1 THEN LinkedRun(d, b) ELSE Idle]

NextInterleave ==
    \/ \E r \in RunIds :
          \/ ReadRoot(r)
          \/ RootLinks(r)
          \/ BfsSkip(r)
          \/ BfsVisit(r)
          \/ BfsLinks(r)
          \/ ReturnLinked(r)
    \/ Reenter(1, 2)

SpecInterleave == InitInterleave /\ [][NextInterleave]_vars

\* ---- specification: ContextSelectionModal after a linked-notes run ---------------
\* the selection dialog is not open
NoSelection == [done |-> FALSE, open |-> FALSE]

\* the files of a list of discovered notes
FilesOf(notes) == { notes[i].file : i \in DOMAIN notes }

\* Array.from(this.checkboxStates.values()).filter(v => v).length
TotalSelected(checkboxStates) ==
    Cardinality({ f \in DOMAIN checkboxStates : checkboxStates[f] })

\* executeContextGathering opens the dialog unless no note was discovered; the
\* constructor copies `included` into checkboxStates, onOpen builds the buttons
OpenSelection(r) ==
    /\ run[r].pc = "returned"
    /\ result = NoSelection
    /\ Len(run[r].notes) > 0
    /\ LET checkboxStates ==
              [f \in FilesOf(run[r].notes) |->
                  \E i \in DOMAIN run[r].notes :
                     run[r].notes[i].file = f /\ run[r].notes[i].included]
       IN result' = [done |-> FALSE, open |-> TRUE,
                     checkboxStates |-> checkboxStates,
                     continueDisabled |-> (TotalSelected(checkboxStates) = 0),
                     selected |-> <<>>]
    /\ run' = [run EXCEPT ![r].pc = "selecting"]
    /\ UNCHANGED <<store, known, files, note, linked, call>>

\* the change event of a checkbox, or a click on its row
ToggleCheckbox(r) ==
    /\ run[r].pc = "selecting"
    /\ \E f \in DOMAIN result.checkboxStates :
          result' = [result EXCEPT !.checkboxStates[f] = ~@]
    /\ UNCHANGED <<store, known, files, run, note, linked, call>>

\* Select All: checkboxStates.set(path, true) for every note, renderNoteList
SelectAll(r) ==
    /\ run[r].pc = "selecting"
    /\ result' = [result EXCEPT
          !.checkboxStates = [f \in DOMAIN @ |-> TRUE]]
    /\ UNCHANGED <<store, known, files, run, note, linked, call>>

\* Deselect All: checkboxStates.set(path, false) for every note, renderNoteList
DeselectAll(r) ==
    /\ run[r].pc = "selecting"
    /\ result' = [result EXCEPT
          !.checkboxStates = [f \in DOMAIN @ |-> FALSE]]
    /\ UNCHANGED <<store, known, files, run, note, linked, call>>

\* faulty variant: the note is rebuilt as a root-level entry
WithIncludedAtRoot(n, included) == [n EXCEPT !.included = included, !.depth = 0]

\* note.included = this.checkboxStates.get(note.file.path) || false
WithIncluded(n, included) == [n EXCEPT !.included = included]

\* Continue, when the button is not disabled: included is set from the
\* checkboxes, onSubmit gets the included notes, the dialog closes
Continue(r) ==
    /\ run[r].pc = "selecting"
    /\ ~result.continueDisabled
    /\ LET notes == [i \in DOMAIN run[r].notes |->
                       WithIncluded(run[r].notes[i],
                                    result.checkboxStates[run[r].notes[i].file])]
       IN /\ run' = [run EXCEPT ![r] = [@ EXCEPT !.notes = notes, !.pc = "selected"]]
          /\ result' = [result EXCEPT !.done = TRUE, !.open = FALSE,
                                      !.selected = IncludedNotes(notes)]
    /\ UNCHANGED <<store, known, files, note, linked, call>>

\* Back: this.close()
Back(r) ==
    /\ run[r].pc = "selecting"
    /\ run' = [run EXCEPT ![r].pc = "closed"]
    /\ result' = [result EXCEPT !.open = FALSE]
    /\ UNCHANGED <<store, known, files, note, linked, call>>

\* a run of depth 1: the root and the notes it refers to
InitSelection ==
    /\ store = [n \in NoteIds |-> NoContent]
    /\ known = 1
    /\ files = <<>>
    /\ note = <<>>
    /\ linked = NotResolved
    /\ call = NoCall
    /\ result = NoSelection
    /\ \E b \in Budgets :
          run = [r \in RunIds |-> IF r = 1 THEN LinkedRun(1, b) ELSE Idle]

NextSelection ==
    \/ ReadRoot(1)
    \/ RootLinks(1)
    \/ BfsSkip(1)
    \/ BfsVisit(1)
    \/ ReturnLinked(1)
    \/ ApplyFolderFilters(1)
    \/ Aggregate(1)
    \/ OpenSelection(1)
    \/ ToggleCheckbox(1)
    \/ SelectAll(1)
    \/ DeselectAll(1)
    \/ Continue(1)
    \/ Back(1)

SpecSelection == InitSelection /\ [][NextSelection]_vars

\* ---- specification: one link-based discovery, run to its end ---------------------
NextDiscover ==
    \/ ReadRoot(1)
    \/ RootLinks(1)
    \/ BfsSkip(1)
    \/ BfsVisit(1)
    \/ BfsLinks(1)
    \/ ReturnLinked(1)

\* the steps of the loop that take nothing from outside the run
NextQueued == BfsSkip(1) \/ BfsLinks(1)

\* the other steps (ReadRoot, RootLinks, BfsVisit, ReturnLinked) can be taken:
\* a read always has some content to return, and the sort always ends
StepEnabled(r) ==
    \/ run[r].pc \in {"start", "rootLinks"}
    \/ /\ run[r].pc = "loop"
       /\ IF run[r].queue = <<>> THEN TRUE
          ELSE ~MapHas(run[r].discovered, Shift(run[r].queue).item.file)

\* a step of the run
StepDone(r) == run'[r] # run[r]

\* every await resolves, so the function goes on while it can: weak fairness
\* of the queue steps, and weak fairness of the other steps written out,
\* with their ENABLED as the state predicate StepEnabled
SpecDiscover ==
    /\ InitRerun
    /\ [][NextDiscover]_vars
    /\ WF_vars(NextQueued)
    /\ ([]<>(~StepEnabled(1)) \/ []<><<StepDone(1)>>_vars)

\* ---- specification: BacklinkMapper -----------------------------------------------
Chars == {"a", "/", "[", "]"}

RECURSIVE Strings(_)
Strings(n) ==
    IF n = 0 THEN { <<>> }
    ELSE Strings(n - 1) \cup { Append(t, c) : t \in Strings(n - 1), c \in Chars }

\* the titles and file names given to registerTitle
Titles == { <<"a">>, <<"/">> }
Filenames == { <<"a">>, <<"/">>, <<" ", "-", " ">> }

NoMap == [t \in {} |-> <<>>]

\* backlinkMapper.registerTitle(title, sanitizedFilename), before any rewriting
RegisterTitle ==
    /\ call.op = "processBacklinks"
    /\ result.passes = 0
    /\ \E title \in Titles, filename \in Filenames :
          /\ IF title \in DOMAIN call.map THEN call.map[title] # filename ELSE TRUE
          /\ call' = [call EXCEPT !.map = registerTitle(@, title, filename)]
    /\ UNCHANGED <<store, known, files, run, note, linked, result>>

\* processBacklinks(content)
ProcessBacklinks ==
    /\ call.op = "processBacklinks"
    /\ result.passes = 0
    /\ result' = [done |-> FALSE, passes |-> 1,
                  once |-> processBacklinks(call.content, call.map), twice |-> <<>>]
    /\ UNCHANGED <<store, known, files, run, note, linked, call>>

\* processBacklinks applied to its own output
ProcessAgain ==
    /\ call.op = "processBacklinks"
    /\ result.passes = 1
    /\ result' = [result EXCEPT !.done = TRUE, !.passes = 2,
                                !.twice = processBacklinks(result.once, call.map)]
    /\ UNCHANGED <<store, known, files, run, note, linked, call>>

InitBacklinks ==
    /\ store = [n \in NoteIds |-> NoContent]
    /\ known = 1
    /\ files = <<>>
    /\ run = [r \in RunIds |-> Idle]
    /\ note = <<>>
    /\ linked = NotResolved
    /\ \E content \in Strings(MaxChars) :
          call = [op |-> "processBacklinks", content |-> content, map |-> NoMap]
    /\ result = [done |-> FALSE, passes |-> 0, once |-> <<>>, twice |-> <<>>]

NextBacklinks == RegisterTitle \/ ProcessBacklinks \/ ProcessAgain

SpecBacklinks == InitBacklinks /\ [][NextBacklinks]_vars

\* ---- specification: FileService.writeDistilledFiles ------------------------------
\* titles of the notes of a batch; "/" and ":" sanitize to the same name
NoteTitles == { <<"a">>, <<"/">>, <<":">> }

\* files that the session folder may hold before the batch is written
ExistingFiles == { <<"a">> }

\* `${sanitizeFilename(rootFile.basename)} - distilled`
SummaryFilename == <<"r", " ", "-", " ", "d">>

\* data.notes: every note has a title, and a content that refers to a note of
\* the batch; data.summary refers to a note of the batch too
Batches ==
    UNION { { notes \in [1 .. n -> [title : NoteTitles, link : NoteTitles]] :
                \A i \in 1 .. n : \E j \in 1 .. n : notes[j].title = notes[i].link }
            : n \in 1 .. MaxNotes }

NotWritten ==
    [done |-> FALSE, stage |-> "start", map |-> NoMap, written |-> <<>>,
     summary |-> [path |-> <<>>, content |-> <<>>]]

\* this.backlinkMapper = new BacklinkMapper(); then registerTitle(note.title,
\* sanitizeFilename(note.title)) for every note
RECURSIVE RegisterAll(_, _, _)
RegisterAll(notes, i, map) ==
    IF i > Len(notes) THEN map
    ELSE RegisterAll(notes, i + 1,
             registerTitle(map, notes[i].title, sanitizeFilename(notes[i].title)))

RegisterTitles ==
    /\ call.op = "writeDistilledFiles"
    /\ result.stage = "start"
    /\ result' = [result EXCEPT !.stage = "registered",
                                !.map = RegisterAll(call.notes, 1, NoMap)]
    /\ UNCHANGED <<store, known, files, run, note, linked, call>>

\* the summary is rewritten and created in the summary folder
WriteSummary ==
    /\ call.op = "writeDistilledFiles"
    /\ result.stage = "registered"
    /\ result' = [result EXCEPT
          !.stage = "summary",
          !.summary = [path |-> createFileWithCollisionHandling(
                                    call.summaryFolder, SummaryFilename),
                       content |-> processBacklinks(LinkTo(call.summary), result.map)]]
    /\ UNCHANGED <<store, known, files, run, note, linked, call>>

\* the files of the session folder: those it held and those written so far
SessionFolder == call.sessionFolder \cup { result.written[i].path : i \in DOMAIN result.written }

\* one turn of the loop over data.notes
WriteNote ==
    /\ call.op = "writeDistilledFiles"
    /\ result.stage = "summary"
    /\ Len(result.written) < Len(call.notes)
    /\ LET n == call.notes[Len(result.written) + 1]
           sanitizedTitle == sanitizeFilename(n.title)
           processedContent == processBacklinks(LinkTo(n.link), result.map)
       IN result' = [result EXCEPT !.written = Append(@,
              [title |-> n.title, link |-> n.link,
               path |-> createFileWithCollisionHandling(SessionFolder, sanitizedTitle),
               content |-> processedContent])]
    /\ UNCHANGED <<store, known, files, run, note, linked, call>>

\* return summaryPath
WriteReturn ==
    /\ call.op = "writeDistilledFiles"
    /\ result.stage = "summary"
    /\ Len(result.written) = Len(call.notes)
    /\ result' = [result EXCEPT !.stage = "returned", !.done = TRUE]
    /\ UNCHANGED <<store, known, files, run, note, linked, call>>

InitWrite ==
    /\ store = [n \in NoteIds |-> NoContent]
    /\ known = 1
    /\ files = <<>>
    /\ run = [r \in RunIds |-> Idle]
    /\ note = <<>>
    /\ linked = NotResolved
    /\ \E notes \in Batches, sessionFolder \in SUBSET ExistingFiles,
          summaryFolder \in SUBSET {SummaryFilename} :
          \E i \in DOMAIN notes :
             call = [op |-> "writeDistilledFiles", notes |-> notes,
                     summary |-> notes[i].title,
                     sessionFolder |-> sessionFolder, summaryFolder |-> summaryFolder]
    /\ result = NotWritten

NextWrite == RegisterTitles \/ WriteSummary \/ WriteNote \/ WriteReturn

SpecWrite == InitWrite /\ [][NextWrite]_vars

\* ---- specification: two createFileWithCollisionHandling calls in flight -----------
Callers == {1, 2}

\* the base path both calls are given
BasePath == <<"a">>

\* Date.now() of the fallback: two calls may or may not fall in the same
\* millisecond
Timestamps == {"t0", "t1"}

\* the folder before the calls: empty, or holding the base path and the
\* first `taken` numbered paths
FolderWith(taken) ==
    IF taken < 0 THEN {}
    ELSE {BasePath} \cup { WithCounter(BasePath, c) : c \in 1 .. taken }

\* let finalPath = basePath; let counter = 1
CallStarted == [pc |-> "first", finalPath |-> BasePath, counter |-> 1]

\* if (!await vault.adapter.exists(finalPath)) on the base path; when the path
\* exists the loop is entered and its first finalPath is built
ExistsFirst(p) ==
    /\ call.op = "createFile"
    /\ result.proc[p].pc = "first"
    /\ LET my == result.proc[p]
       IN result' = [result EXCEPT !.proc[p] =
             IF my.finalPath \notin result.folder
             THEN [my EXCEPT !.pc = "create"]
             ELSE [my EXCEPT !.pc = "loop",
                             !.finalPath = WithCounter(call.basePath, my.counter)]]
    /\ UNCHANGED <<store, known, files, run, note, linked, call>>

\* if (!await vault.adapter.exists(finalPath)) inside while (counter < 100);
\* counter++ when the path exists, and the timestamp path after the loop
ExistsLoop(p) ==
    /\ call.op = "createFile"
    /\ result.proc[p].pc = "loop"
    /\ LET my == result.proc[p]
       IN IF my.finalPath \notin result.folder
          THEN result' = [result EXCEPT !.proc[p].pc = "create"]
          ELSE IF my.counter + 1 <= MaxCounter
          THEN result' = [result EXCEPT !.proc[p] =
                  [my EXCEPT !.counter = my.counter + 1,
                             !.finalPath = WithCounter(call.basePath,
                                                       my.counter + 1)]]
          ELSE \E timestamp \in Timestamps :
                  result' = [result EXCEPT !.proc[p] =
                     [my EXCEPT !.counter = my.counter + 1,
                                !.pc = "create",
                                !.finalPath = call.basePath \o <<"-", timestamp>>]]
    /\ UNCHANGED <<store, known, files, run, note, linked, call>>

\* await vault.create(finalPath, content); return finalPath. Vault.create
\* rejects when a file is already at the path, and the rejection leaves the
\* function
Create(p) ==
    /\ call.op = "createFile"
    /\ result.proc[p].pc = "create"
    /\ result' =
          IF result.proc[p].finalPath \in result.folder
          THEN [result EXCEPT !.proc[p].pc = "failed"]
          ELSE [result EXCEPT
                  !.proc[p].pc = "returned",
                  !.folder = @ \cup {result.proc[p].finalPath},
                  !.created = Append(@, [path |-> result.proc[p].finalPath,
                                         by |-> p])]
    /\ UNCHANGED <<store, known, files, run, note, linked, call>>

InitCreate ==
    /\ store = [n \in NoteIds |-> NoContent]
    /\ known = 1
    /\ files = <<>>
    /\ run = [r \in RunIds |-> Idle]
    /\ note = <<>>
    /\ linked = NotResolved
    /\ call = [op |-> "createFile", basePath |-> BasePath]
    /\ \E taken \in -1 .. MaxCounter :
          result = [done |-> FALSE, folder |-> FolderWith(taken),
                    created |-> <<>>,
                    proc |-> [p \in Callers |-> CallStarted]]

NextCreate ==
    \/ \E p \in Callers : ExistsFirst(p)
    \/ \E p \in Callers : ExistsLoop(p)
    \/ \E p \in Callers : Create(p)

SpecCreate == InitCreate /\ [][NextCreate]_vars

\* ---- what the claims speak of -----------------------------------------------
\* discoverLinkedNotes of run r has returned its list (run[r].notes)
LinkedReturned(r) ==
    run[r].sourceMode = "linked-notes" /\ run[r].pc = "discovered"

RECURSIVE SumIncluded(_)
SumIncluded(ns) ==
    IF ns = <<>> THEN 0
    ELSE (IF Head(ns).included THEN Head(ns).estimatedChars ELSE 0)
         + SumIncluded(Tail(ns))

IncludedFiles(ns) == { ns[i].file : i \in { j \in 1 .. Len(ns) : ns[j].included } }
AllFiles(ns) == { ns[i].file : i \in 1 .. Len(ns) }

\* the resolved references of a note, as a set
RefsOf(n) == LET links == getLinkedNotes(n) IN { links[i] : i \in 1 .. Len(links) }

\* <<RefsOf(0), ..., RefsOf(n)>>
RECURSIVE RefsUpTo(_)
RefsUpTo(n) == IF n < 0 THEN <<>> ELSE Append(RefsUpTo(n - 1), RefsOf(n))

Far == MaxRefs + 2

\* d maps a note to the length of the shortest chain of resolved references
\* from the root whose notes before the last all lie in `through` (Far: none)
\* d with the notes of `next` set to k (d = <<>>: the root at 0, the rest Far)
RECURSIVE Advance(_, _, _, _)
Advance(d, next, k, out) ==
    IF Len(out) = MaxRefs + 1 THEN out
    ELSE LET n == Len(out)
         IN Advance(d, next, k,
                Append(out, IF d = <<>> THEN (IF n = 0 THEN 0 ELSE Far)
                            ELSE IF n \in next THEN k ELSE d[n + 1]))

RECURSIVE Relax(_, _, _, _)
Relax(adj, through, d, k) ==
    LET next == { y \in NoteIds :
                    d[y + 1] = Far
                    /\ \E x \in through : d[x + 1] = k - 1 /\ y \in adj[x + 1] }
    IN IF next = {} THEN d
       ELSE Relax(adj, through, Advance(d, next, k, <<>>), k + 1)

\* DistMap(through)[n + 1] is the distance of note n
DistMap(through) ==
    Relax(RefsUpTo(MaxRefs), through, Advance(<<>>, {}, 0, <<>>), 1)

DistOf(d, n) == d[n + 1]

C1_WitnessBigRoot ==
    /\ LinkedReturned(1)
    /\ store[0].chars > run[1].maxCharacters
    /\ Len(run[1].notes) > 1

Gathered(r) == run[r].pc \in {"filtered", "returned"}

\* C4: in the result of a linked-notes gathering run the root's record has
\* included = true, depth 0 and provenance 'root', wherever the root is stored.
C4_RootAlwaysIncluded ==
    (Gathered(1) /\ run[1].sourceMode = "linked-notes") =>
        \E i \in 1 .. Len(run[1].notes) :
            /\ run[1].notes[i].file = 0
            /\ run[1].notes[i].included
            /\ run[1].notes[i].depth = 0
            /\ run[1].notes[i].discoveredVia = Root

\* C5 (as stated): no note referenced by a budget-excluded note is among the
\* discovered notes.
C5_ExcludedHaveNoDiscoveredChild ==
    LinkedReturned(1) =>
        \A i \in 1 .. Len(run[1].notes) :
            ~run[1].notes[i].included =>
                RefsOf(run[1].notes[i].file) \cap AllFiles(run[1].notes) = {}

\* C5 (amended): the references of a budget-excluded note X are never
\* resolved by the run, and a note referenced by X is among the discovered
\* notes only if it is the root or is referenced by a note, other than X,
\* whose references the run resolved.
C5_ExcludedAreNotExpanded ==
    LinkedReturned(1) =>
        \A i \in 1 .. Len(run[1].notes) :
            LET x == run[1].notes[i].file IN
            ~run[1].notes[i].included =>
                /\ x \notin run[1].expanded
                /\ \A y \in RefsOf(x) \cap AllFiles(run[1].notes) :
                      \/ y = 0
                      \/ \E p \in run[1].expanded \ {x} : y \in RefsOf(p)

C5_Witness ==
    /\ LinkedReturned(1)
    /\ \E i \in 1 .. Len(run[1].notes) :
          /\ ~run[1].notes[i].included
          /\ run[1].notes[i].depth < run[1].linkDepth
          /\ \E y \in RefsOf(run[1].notes[i].file) : y \notin AllFiles(run[1].notes)
          /\ \E y \in RefsOf(run[1].notes[i].file) :
                y # 0 /\ y \in AllFiles(run[1].notes)

\* C6: every discovered note has a depth in 0 .. maxDepth, and no note that
\* is more than maxDepth reference hops from the root is discovered.
C6_DepthWithinLimit ==
    /\ \A i \in 1 .. Len(run[1].discovered) :
          run[1].discovered[i].depth \in 0 .. run[1].linkDepth
    /\ LinkedReturned(1) =>
          LET d == DistMap(NoteIds) IN
          /\ \A i \in 1 .. Len(run[1].notes) :
                run[1].notes[i].depth \in 0 .. run[1].linkDepth
          /\ \A n \in NoteIds :
                DistOf(d, n) > run[1].linkDepth => n \notin AllFiles(run[1].notes)

C6_Witness ==
    /\ LinkedReturned(1)
    /\ run[1].linkDepth = 2
    /\ \E i \in 1 .. Len(run[1].notes) : run[1].notes[i].depth = 2
    /\ \E n \in 0 .. (known - 1) :
          /\ n \notin AllFiles(run[1].notes)
          /\ DistOf(DistMap(NoteIds), n) = 3

\* ---- recency-based discovery ---------------------------------------------------
NoDuplicates(ns) ==
    \A i, j \in 1 .. Len(ns) : i # j => ns[i].file # ns[j].file

\* discoverLinkedNotes or discoverRecentNotes of run r has returned its list
Discovered(r) == run[r].pc \in {"discovered", "filtered", "returned"}

\* C2: in the list returned by a discovery run, link-based or recency-based,
\* no two DiscoveredNote entries share a note identity.
C2_NoDuplicateIdentity ==
    Discovered(1) => NoDuplicates(run[1].notes)

\* a link-based run has returned, in which a traversed note other than the root
\* references itself and references the root back (so it has two parents)
C2_Witness ==
    /\ LinkedReturned(1)
    /\ \E x \in run[1].expanded \ {0} :
          /\ x \in RefsOf(x)
          /\ 0 \in RefsOf(x)
          /\ x \in RefsOf(0)

\* getRecentlyModifiedNotes of run r has computed startTime and endTime
WindowComputed(r) ==
    run[r].sourceMode = "recent-activity"
    /\ run[r].pc \in {"scan", "read", "discovered", "filtered", "returned"}

\* C9: the window used is [now - daysBack days, now] when the mode is days-back,
\* whatever fromDate and toDate the configuration holds, and [fromDate 00:00:00,
\* toDate 23:59:59] when the mode is date-range.
C9_WindowFollowsMode ==
    WindowComputed(1) =>
        LET w == run[1].timeWindow
        IN /\ w.mode = "days-back" =>
                /\ run[1].startTime = run[1].now - w.daysBack * TicksPerDay
                /\ run[1].endTime = run[1].now
           /\ (w.mode = "date-range" /\ w.fromDate # NoDate /\ w.toDate # NoDate) =>
                /\ run[1].startTime
                     = LocalDate(w.fromDate.month, w.fromDate.day, run[1].tz)
                /\ run[1].endTime
                     = LocalDate(w.toDate.month, w.toDate.day, run[1].tz)
                       + TicksPerDay - 1

\* getRecentlyModifiedNotes of run r has returned (run[r].recentFiles)
RecentReturned(r) ==
    run[r].sourceMode = "recent-activity"
    /\ run[r].pc \in {"read", "discovered", "filtered", "returned"}

\* some excluded folder is a prefix of the path or a run of its inner segments
UnderExcluded(dir, excludeFolders) ==
    \E k \in 1 .. Len(excludeFolders) :
        \E a \in 0 .. Len(dir) - Len(excludeFolders[k]) :
            \A i \in 1 .. Len(excludeFolders[k]) : dir[a + i] = excludeFolders[k][i]

\* the filename starts with a date (month 1-12, day 1-31) lying in the window
FilenameDateInside(r, file) ==
    /\ file.name # NoDate
    /\ file.name.month \in 1 .. 12
    /\ file.name.day \in 1 .. 31
    /\ LocalDate(file.name.month, file.name.day, run[r].tz) >= run[r].startTime
    /\ LocalDate(file.name.month, file.name.day, run[r].tz) <= run[r].endTime

MtimeInside(r, file) ==
    /\ file.mtime # Null
    /\ file.mtime >= run[r].startTime
    /\ file.mtime <= run[r].endTime

Returned(r) == { run[r].recentFiles[i] : i \in 1 .. Len(run[r].recentFiles) }

C10_WitnessByFilename ==
    /\ RecentReturned(1)
    /\ \E j \in Returned(1) :
          FilenameDateInside(1, files[j]) /\ files[j].mtime = Null

\* ---- two runs --------------------------------------------------------------------
\* C7: for the same root, vault and maxCharacters and d1 < d2, a note discovered
\* by both runs has in the d2 run a depth not smaller than in the d1 run.
C7_DepthNotSmallerOnRerun ==
    (LinkedReturned(1) /\ LinkedReturned(2)) =>
        \A i \in 1 .. Len(run[1].notes), j \in 1 .. Len(run[2].notes) :
            run[1].notes[i].file = run[2].notes[j].file
                => run[2].notes[j].depth >= run[1].notes[i].depth

\* both runs have returned, the second has discovered a note the first did not,
\* and a note at the first run's depth limit is in both lists
C7_Witness ==
    /\ LinkedReturned(1)
    /\ LinkedReturned(2)
    /\ run[1].linkDepth < run[2].linkDepth
    /\ AllFiles(run[2].notes) \ AllFiles(run[1].notes) # {}
    /\ \E i \in 1 .. Len(run[1].notes) :
          /\ run[1].notes[i].depth = run[1].linkDepth
          /\ run[1].notes[i].file \in AllFiles(run[2].notes)

\* ---- reference resolution -------------------------------------------------------
\* the text has a checkbox list item, unchecked or checked ([x] or [X]),
\* immediately followed by a note reference
HasCheckboxItem(text) ==
    \E i \in 1 .. Len(text) : text[i].kind = "box" /\ text[i].marker \in Markers

\* the resolvable references of the checked items
CheckedReferences(text) ==
    { text[i].target :
        i \in { j \in 1 .. Len(text) :
                  /\ text[j].kind = "box"
                  /\ text[j].marker \in {"x", "X"}
                  /\ text[j].target # -1 } }

\* C8: for a text with at least one checkbox list item followed by a reference,
\* getLinkedNotes returns exactly the resolvable references of the checked
\* items, and nothing from plain references, embeds or query blocks.
C8_CollectionReturnsCheckedOnly ==
    (linked.done /\ HasCheckboxItem(note)) =>
        { linked.files[i] : i \in 1 .. Len(linked.files) } = CheckedReferences(note)

\* ---- journal filtering ----------------------------------------------------------
\* line i is a header showing a day of the calendar
IsDatedHeader(text, i) ==
    /\ text[i].kind = "header"
    /\ text[i].date.month \in 1 .. 12
    /\ text[i].date.day \in 1 .. MonthDays[text[i].date.month]

\* the last line of the section that starts at line i
SectionEnd(text, i) ==
    LET later == { j \in (i + 1) .. Len(text) : IsDatedHeader(text, j) }
    IN IF later = {} THEN Len(text)
       ELSE (CHOOSE j \in later : \A k \in later : j <= k) - 1

\* the local day of `now`, minus daysBack days
CutoffDay(daysBack, now, tz) == ((now + tz) \div TicksPerDay) - daysBack

\* the dated sections from line i on whose day is on or after the cutoff day
RECURSIVE KeptFrom(_, _, _)
KeptFrom(text, i, cutoffDay) ==
    IF i > Len(text) THEN <<>>
    ELSE (IF /\ IsDatedHeader(text, i)
             /\ DayOfYear(text[i].date.month, text[i].date.day) >= cutoffDay
          THEN << Trim(SubSeq(text, i, SectionEnd(text, i))) >>
          ELSE <<>>)
         \o KeptFrom(text, i + 1, cutoffDay)

\* the lines before the first dated header, when there are any
Preamble(text) ==
    IF IsDatedHeader(text, 1) THEN <<>>
    ELSE << Trim(SubSeq(text, 1, SectionEnd(text, 1))) >>

JournalCall == call.op = "extractContentByDateRange" /\ result.done

\* C11: for a journal-style note, extractContentByDateRange keeps, in their
\* original order, exactly the undated preamble and the dated sections whose
\* date is on or after local midnight of today minus daysBack.
C11_KeepsPreambleAndRecentSections ==
    (JournalCall /\ isJournalStyleNote(call.content, call.format)) =>
        result.value
          = JoinSections(Preamble(call.content)
                         \o KeptFrom(call.content, 1,
                                     CutoffDay(call.daysBack, call.now, call.tz)))

\* a journal note was filtered that has a preamble, a section dated on the
\* cutoff day and a section dated before it
C11_Witness ==
    /\ JournalCall
    /\ call.format # ""
    /\ ~IsDatedHeader(call.content, 1)
    /\ call.content[1] = Ordinary
    /\ \E i, j \in 1 .. Len(call.content) :
          /\ IsDatedHeader(call.content, i)
          /\ IsDatedHeader(call.content, j)
          /\ DayOfYear(call.content[i].date.month, call.content[i].date.day)
               = CutoffDay(call.daysBack, call.now, call.tz)
          /\ DayOfYear(call.content[j].date.month, call.content[j].date.day)
               < CutoffDay(call.daysBack, call.now, call.tz)
    /\ Len(result.value) < Len(call.content)

\* C12: for a text with no line forming a valid date header under the
\* configured format, and for any text when the format is empty,
\* extractContentByDateRange returns the text unchanged.
C12_NonJournalUnchanged ==
    (/\ JournalCall
     /\ \/ call.format = ""
        \/ \A i \in 1 .. Len(call.content) : ~IsDatedHeader(call.content, i))
        => result.value = call.content

\* ---- aggregation -----------------------------------------------------------------
\* the text of a file after journal filtering, when a journal window is given
ResultingText(c, file) ==
    IF c.timeWindowDays # Null
    THEN extractContentByDateRange(c.texts[file], c.timeWindowDays, c.format,
                                   c.now, c.tz)
    ELSE c.texts[file]

\* the files from position i on that are no later duplicate and whose
\* resulting text is not empty
RECURSIVE NonEmptyNotesFrom(_, _)
NonEmptyNotesFrom(c, i) ==
    IF i > Len(c.files) THEN <<>>
    ELSE (IF /\ \A j \in 1 .. (i - 1) : c.files[j] # c.files[i]
             /\ ResultingText(c, c.files[i]) # EmptyText
          THEN << c.files[i] >> ELSE <<>>)
         \o NonEmptyNotesFrom(c, i + 1)

\* the titles of the boundary markers of a text, in order
RECURSIVE MarkerTitles(_)
MarkerTitles(text) ==
    IF text = <<>> THEN <<>>
    ELSE (IF Head(text).kind = "marker" THEN << Head(text).title >> ELSE <<>>)
         \o MarkerTitles(Tail(text))

\* C13: the titles aggregateContent records are, in the caller's order and
\* without later duplicates, exactly the notes whose text (after journal
\* filtering when a window is given) is non-empty; a note whose resulting
\* text is empty adds no boundary marker and no title.
C13_TitlesAreNonEmptyNotes ==
    (call.op = "aggregateContent" /\ result.done) =>
        /\ result.sourceNotes = NonEmptyNotesFrom(call, 1)
        /\ MarkerTitles(result.content) = NonEmptyNotesFrom(call, 1)

\* gatherContext of run r has returned
HasReturned(r) == run[r].pc = "returned"

\* C14: for every linked-notes gathering run, the length of aggregatedContent
\* (totalCharacters) returned by gatherContext never exceeds maxCharacters.
C14_AggregatedWithinBudget ==
    (HasReturned(1) /\ run[1].sourceMode = "linked-notes") =>
        run[1].totalCharacters <= run[1].maxCharacters

\* ---- backlinks -------------------------------------------------------------------
RewrittenTwice == call.op = "processBacklinks" /\ result.done

\* C15 (as stated): for every set of registerTitle calls and every text,
\* processBacklinks(processBacklinks(text)) equals processBacklinks(text).
C15_RewriteIdempotent ==
    RewrittenTwice => result.twice = result.once

\* every title is registered with its sanitized name, as FileService does
RegisteredSanitized ==
    \A t \in DOMAIN call.map : call.map[t] = sanitizeFilename(t)

\* C15 (amended): when every title is registered with sanitizeFilename(title),
\* processBacklinks(processBacklinks(text)) equals processBacklinks(text).
C15_RewriteIdempotentWhenSanitized ==
    (RewrittenTwice /\ RegisteredSanitized) => result.twice = result.once

\* a text with a reference to a registered title that needs sanitizing was
\* rewritten twice
C15_Witness ==
    /\ RewrittenTwice
    /\ RegisteredSanitized
    /\ <<"/">> \in DOMAIN call.map
    /\ result.once # call.content
    /\ \E i \in 1 .. Len(call.content) - 4 :
          SubSeq(call.content, i, i + 4) = <<"[", "[", "/", "]", "]">>

\* ---- written batches -------------------------------------------------------------
\* the title between the brackets of a rewritten reference
TargetOf(content) == SubSeq(content, 3, Len(content) - 2)

\* the names of the files created for the notes titled `title`
CreatedFor(title) ==
    { result.written[i].path :
        i \in { j \in DOMAIN result.written : result.written[j].title = title } }

BatchWritten == call.op = "writeDistilledFiles" /\ result.done

\* C16: after a batch is written, every reference [[T]] to a title T of the
\* batch, in a note or in the summary, names a file that was created for T.
C16_LinksNameCreatedFiles ==
    BatchWritten =>
       /\ \A i \in DOMAIN result.written :
             TargetOf(result.written[i].content) \in CreatedFor(result.written[i].link)
       /\ TargetOf(result.summary.content) \in CreatedFor(call.summary)

\* ---- failures --------------------------------------------------------------------
\* maxCharacters not greater than 0, or linkDepth outside {1, 2, 3}
InvalidConfig(r) ==
    /\ run[r].sourceMode = "linked-notes"
    /\ run[r].maxCharacters <= 0 \/ run[r].linkDepth \notin Depths

\* the run has read a note or resolved the references of one
HasReadANote(r) == run[r].discovered # <<>> \/ run[r].expanded # {}

\* C17: a run whose maxCharacters is not greater than 0 or whose linkDepth is
\* outside {1,2,3} reads no note, resolves no reference and returns no result.
C17_InvalidConfigReadsNothing ==
    InvalidConfig(1) => (~HasReadANote(1) /\ run[1].pc \in {"start", "failed"})

\* C18: a linked-notes run ends in a reported failure only when the failing
\* operation was on the root note; a failed read of another note does not end it.
C18_OnlyRootFailureIsFatal ==
    (run[1].pc = "failed" /\ ~InvalidConfig(1)) => run[1].error.file = 0

\* C19: a failure of getLinkedNotes at any node, the root included, never ends
\* the run; the node contributes no children and the queue is still worked off.
C19_ResolutionFailureIsCaught ==
    ~InvalidConfig(1) => ~(run[1].pc = "failed" /\ run[1].error.op = "getLinkedNotes")

\* ---- re-entrancy -----------------------------------------------------------------
\* what discoverLinkedNotes returns for the notes of `store` when nothing else
\* runs: the loop over the queue, from the state given
RECURSIVE DiscoverAlone(_, _, _, _, _)
DiscoverAlone(queue, discovered, totalChars, maxDepth, maxCharacters) ==
    IF queue = <<>> THEN SortNotes(discovered)
    ELSE LET item == Shift(queue).item
             rest == Shift(queue).rest
         IN IF MapHas(discovered, item.file)
            THEN DiscoverAlone(rest, discovered, totalChars, maxDepth, maxCharacters)
            ELSE LET chars == store[item.file].chars
                     over == OverBudget(totalChars, chars, maxCharacters)
                     found == MapSet(discovered, DiscoveredNote(item.file, item.depth,
                                        LinkedFrom(item.via), chars, ~over))
                 IN DiscoverAlone(
                       IF Expands(~over, item.depth, maxDepth)
                       THEN EnqueueLinks(rest, getLinkedNotes(item.file), found, item)
                       ELSE rest,
                       found, IF over THEN totalChars ELSE totalChars + chars,
                       maxDepth, maxCharacters)

ResultAlone(maxDepth, maxCharacters) ==
    DiscoverAlone([i \in 1 .. Len(getLinkedNotes(0)) |->
                      [file |-> getLinkedNotes(0)[i], depth |-> 1, via |-> Basename(0)]],
                  <<DiscoveredNote(0, 0, Root, store[0].chars, TRUE)>>,
                  store[0].chars, maxDepth, maxCharacters)

\* C20: whatever the interleaving of two invocations, each returns the notes it
\* returns when it runs alone over the same notes.
C20_InterleavedAsAlone ==
    \A r \in RunIds :
       run[r].pc = "discovered" =>
          run[r].notes = ResultAlone(run[r].linkDepth, run[r].maxCharacters)

\* both invocations have returned, the second having been called while the
\* first was under way; both found notes beyond the root, and their results differ
C20_Witness ==
    /\ run[1].pc = "discovered" /\ run[2].pc = "discovered"
    /\ run[1].notes # run[2].notes
    /\ Len(run[1].notes) > 2 /\ Len(run[2].notes) > 2
    /\ run[1].expanded # run[2].expanded

\* ---- selection -------------------------------------------------------------------
\* the record made for `file` when discovery found it
Created(r, file) ==
    CHOOSE m \in { run[r].discovered[i] : i \in DOMAIN run[r].discovered } :
       m.file = file

\* n is its record of creation but for the included flag
SameButIncluded(r, n) ==
    /\ MapHas(run[r].discovered, n.file)
    /\ LET m == Created(r, n.file)
       IN /\ DOMAIN n = DOMAIN m
          /\ n.depth = m.depth
          /\ n.discoveredVia = m.discoveredVia
          /\ n.estimatedChars = m.estimatedChars

\* C21: after folder filtering and any selection actions, every note handed on
\* is the record made at discovery, but for its included flag.
C21_OnlyIncludedChanges ==
    /\ \A i \in DOMAIN run[1].notes : SameButIncluded(1, run[1].notes[i])
    /\ result.open \/ result.done =>
          \A i \in DOMAIN result.selected : SameButIncluded(1, result.selected[i])

\* Continue was pressed after the folder filter had cleared one flag and the
\* user had set another: one note lost and one gained `included`
C21_Witness ==
    /\ run[1].pc = "selected"
    /\ \E i, j \in DOMAIN run[1].notes :
          /\ Created(1, run[1].notes[i].file).included /\ ~run[1].notes[i].included
          /\ ~Created(1, run[1].notes[j].file).included /\ run[1].notes[j].included
    /\ Len(result.selected) > 1

\* ---- the character limit ---------------------------------------------------------
\* C22: once the character limit has left one note out, every note recorded
\* later in the same run is recorded with included = false as well.
C22_NothingIncludedAfterLimit ==
    \A i, j \in DOMAIN run[1].discovered :
       (i < j /\ ~run[1].discovered[i].included) => ~run[1].discovered[j].included

\* ---- the order of resolved references --------------------------------------------
\* the resolved targets of the tokens of `text` whose kind is in `kinds`
RECURSIVE ResolvedOf(_, _)
ResolvedOf(text, kinds) ==
    IF text = <<>> THEN <<>>
    ELSE (IF Head(text).kind \in kinds /\ Head(text).target # -1
          THEN <<Head(text).target>> ELSE <<>>)
         \o ResolvedOf(Tail(text), kinds)

\* what getLinkedNotes merges: query results, then references, then embeds;
\* in a collection note, the checked items
Merged(text, useDataview) ==
    IF HasCheckboxLinks(text)
    THEN ResolvedOf(SelectSeq(text, IsCheckedBox), {"box"})
    ELSE (IF useDataview THEN ResolvedOf(text, {"query"}) ELSE <<>>)
         \o ResolvedOf(text, {"link", "box"}) \o ResolvedOf(text, {"embed"})

\* the first position of x in the sequence s
FirstAt(s, x) == CHOOSE i \in DOMAIN s : s[i] = x /\ \A j \in 1 .. i - 1 : s[j] # x

C24_SortedByDepthThenTitle ==
    LinkedReturned(1) =>
       \A i, j \in DOMAIN run[1].notes :
          i < j =>
             \/ run[1].notes[i].depth < run[1].notes[j].depth
             \/ /\ run[1].notes[i].depth = run[1].notes[j].depth
                /\ Basename(run[1].notes[i].file) <= Basename(run[1].notes[j].file)

\* the sort moved a note: two notes of one depth were found in the other order
C24_Witness ==
    /\ LinkedReturned(1)
    /\ \E i, j \in DOMAIN run[1].discovered :
          /\ i < j
          /\ run[1].discovered[i].depth = run[1].discovered[j].depth
          /\ Basename(run[1].discovered[i].file) > Basename(run[1].discovered[j].file)

\* ---- date sections ---------------------------------------------------------------
\* the sections getDateSections makes of the text of the call
SectionsOfCall == getDateSections(call.content, call.format, call.tz)

\* C25: the section list of any text holds at most one section with date null,
\* and such a section is the first of the list.
C25_OnlyFirstSectionUndated ==
    JournalCall =>
       \A i \in DOMAIN SectionsOfCall : SectionsOfCall[i].date = Null => i = 1

\* a text with an undated preamble followed by two dated sections
C25_Witness ==
    /\ JournalCall
    /\ Len(SectionsOfCall) >= 3
    /\ SectionsOfCall[1].date = Null
    /\ SectionsOfCall[2].date # Null

\* ---- the running total -----------------------------------------------------------
\* C26: at every point of link-based discovery the running total is the sum of
\* estimatedChars over the notes recorded so far with included = true.
C26_TotalIsSumOfIncluded ==
    run[1].sourceMode = "linked-notes" =>
       run[1].totalChars = SumIncluded(run[1].discovered)

\* a note that is already recorded waits in the queue a second time, one note
\* was left out by the limit and one was added to the total
C26_Witness ==
    /\ run[1].sourceMode = "linked-notes"
    /\ run[1].pc = "loop"
    /\ \E i \in DOMAIN run[1].queue :
          /\ run[1].queue[i].file # 0
          /\ MapHas(run[1].discovered, run[1].queue[i].file)
    /\ \E i \in DOMAIN run[1].discovered : ~run[1].discovered[i].included
    /\ \E i \in DOMAIN run[1].discovered :
          /\ run[1].discovered[i].depth > 0
          /\ run[1].discovered[i].included
          /\ run[1].discovered[i].estimatedChars > 0

\* ---- provenance ------------------------------------------------------------------
\* p is recorded one level above n, with included = true, under the title
\* that n's provenance names, and its resolved references hold n
IsNamedParent(p, n) ==
    /\ p.depth = n.depth - 1
    /\ p.included
    /\ n.discoveredVia = LinkedFrom(Basename(p.file))
    /\ \E k \in DOMAIN getLinkedNotes(p.file) : getLinkedNotes(p.file)[k] = n.file

\* C27: every non-root note recorded at depth d names in its provenance a note
\* recorded at depth d - 1 with included = true whose references contain it.
C27_ProvenanceNamesIncludedParent ==
    run[1].sourceMode = "linked-notes" =>
       \A i \in DOMAIN run[1].discovered :
          run[1].discovered[i].depth > 0 =>
             \E j \in DOMAIN run[1].discovered :
                IsNamedParent(run[1].discovered[j], run[1].discovered[i])

\* a run that recorded a note two levels below the root and left a note out
C27_Witness ==
    /\ LinkedReturned(1)
    /\ \E i \in DOMAIN run[1].discovered : run[1].discovered[i].depth = 2
    /\ \E i \in DOMAIN run[1].discovered : ~run[1].discovered[i].included

\* ---- termination -----------------------------------------------------------------
\* the references of a note are resolved for a note not resolved before
ExpandsOnce ==
    BfsLinks(1) => run[1].cur.file \notin run[1].expanded

\* C28: link-based discovery expands each note at most once and comes to its
\* end with an empty queue, whatever cycles the references form.
C28_ExpandsOnceAndTerminates ==
    /\ [][ExpandsOnce]_vars
    /\ <>(run[1].pc = "discovered" /\ run[1].queue = <<>>)

\* the run has ended over notes in which an expanded note below the root
\* refers back to the root and some expanded note refers to itself
C28_Witness ==
    /\ LinkedReturned(1)
    /\ run[1].queue = <<>>
    /\ \E i \in DOMAIN run[1].discovered :
          /\ run[1].discovered[i].depth >= 1
          /\ run[1].discovered[i].file \in run[1].expanded
          /\ \E k \in DOMAIN getLinkedNotes(run[1].discovered[i].file) :
                getLinkedNotes(run[1].discovered[i].file)[k] = 0
    /\ \E n \in run[1].expanded :
          \E k \in DOMAIN getLinkedNotes(n) : getLinkedNotes(n)[k] = n

\* ---- the Continue button of the selection dialog -----------------------------------
\* C29: while the selection dialog is open, Continue is enabled exactly when
\* at least one note is checked.
C29_ContinueEnabledIffChecked ==
    run[1].pc = "selecting" =>
        (~result.continueDisabled <=> TotalSelected(result.checkboxStates) > 0)

\* ---- two calls with the same base path --------------------------------------------
\* C30: of two createFileWithCollisionHandling calls with the same base path,
\* however their steps interleave, neither fails on a path the other created,
\* and once both have returned their paths are distinct.
C30_BothCreateDistinctPaths ==
    call.op = "createFile" =>
        /\ \A p \in Callers :
              result.proc[p].pc = "failed" =>
                 ~\E i \in DOMAIN result.created :
                     /\ result.created[i].path = result.proc[p].finalPath
                     /\ result.created[i].by # p
        /\ (\A p \in Callers : result.proc[p].pc = "returned")
              => result.proc[1].finalPath # result.proc[2].finalPath


====
